---- MODULE Spec2Model ----
(***************************************************************************)
(* Model of the playback engine of NKMusicBot: the per-chat dictionaries   *)
(* of AudioManager (src/utils/audio_manager.py), the transport calls it    *)
(* issues to PyTgCalls, and the command handlers of MusicHandler           *)
(* (src/handlers/music_handler.py) that drive it.                          *)
(*                                                                         *)
(* A handler runs as one step.  Every transport call it makes may fail     *)
(* (the library raises); the outcome of each call is an input of the step. *)
(* A track is identified by its file_path (the locator handed to the       *)
(* transport); the display fields of the track dict play no part in        *)
(* control flow.                                                           *)
(***************************************************************************)
EXTENDS Integers, Sequences, FiniteSets

\* ------------------------------------------------------------------ bounds
NumSongs == 2           \* distinct media files a request can resolve to
MAX_QUEUE_SIZE == 2     \* Config.MAX_QUEUE_SIZE (env-configurable, default 50)
DEFAULT_VOLUME == 100   \* Config.DEFAULT_VOLUME
MAX_SONG_DURATION == 1800   \* Config.MAX_SONG_DURATION, seconds
RATE_LIMIT_REQUESTS == 2    \* Config.RATE_LIMIT_REQUESTS (env-configurable, default 10)
RATE_LIMIT_WINDOW == 2      \* Config.RATE_LIMIT_WINDOW, seconds (env-configurable, default 60)
MaxTime == RATE_LIMIT_WINDOW + 1    \* the clock is followed until a window has passed
MaxPlayed == 1          \* songs recorded per user

Chats == {1}
Songs == 1 .. NumSongs
None == 0               \* Python None (no track / no argument)
LoopModes == {"off", "song", "queue"}
VolumeArgs == {-1, 0, 1, 200, 250}   \* -1: an argument that is no integer

\* ------------------------------------------------------------------ state
VARIABLES
    queues,           \* AudioManager.queues: dict chat -> list of tracks
    current_tracks,   \* AudioManager.current_tracks: dict chat -> track or None
    loop_modes,       \* AudioManager.loop_modes: dict chat -> mode
    volumes,          \* AudioManager.volumes: dict chat -> int
    paused_chats,     \* AudioManager.paused_chats: set of chats
    calls,            \* the transport's active group calls (PyTgCalls.get_call)
    transport_log,    \* transport calls issued by the most recent handler
    last,             \* the most recent handler: operation, chat, outcome
    tasks,            \* coroutines suspended at an await: position, chat, call argument
    issued,           \* transport calls of the running coroutines, in issue order
    start,            \* the manager's state when the first of them began
    users,            \* Database: the users table, user_id -> row
    rate_limit_storage,   \* decorators.rate_limit_storage: user_id -> request times
    now,              \* datetime.now(), in seconds
    admissions,       \* the times at which rate_limit let each user's request through
    requester         \* update.effective_user of the most recent request

vars == <<queues, current_tracks, loop_modes, volumes, paused_chats, calls,
          transport_log, last, tasks, issued, start,
          users, rate_limit_storage, now, admissions, requester>>

\* The part of the state that decides who may use the bot.
access == <<users, rate_limit_storage, now, admissions, requester>>

\* The two coroutines that can be suspended at the same time: the skip command
\* (updates are dispatched one at a time, so at most one command runs) and the
\* stream-end callback the transport schedules on its own.
Tasks == {"skip", "stream_end"}
Idle == [at |-> "idle", branch |-> "none", chat |-> None, arg |-> None]

\* The /play command is a third coroutine; it is stepped from await to await
\* where it meets the stream-end callback leaving the voice chat.
Coroutines == Tasks \cup {"play"}

Users == {1, 2}
SUDO_USERS == {2}       \* Config.SUDO_USERS: the admins

\* ------------------------------------------------------- python dictionaries
Has(d, k) == k \in DOMAIN d
Get(d, k, default) == IF k \in DOMAIN d THEN d[k] ELSE default
Put(d, k, v) == [x \in (DOMAIN d) \cup {k} |-> IF x = k THEN v ELSE d[x]]
Pop(d, k) == [x \in (DOMAIN d) \ {k} |-> d[x]]
EmptyDict == [x \in {} |-> None]

\* The manager's fields and the transport, as one value the methods transform.
State ==
    [queues |-> queues, current_tracks |-> current_tracks,
     loop_modes |-> loop_modes, volumes |-> volumes,
     paused_chats |-> paused_chats, calls |-> calls, log |-> <<>>]

\* ---------------------------------------------------------------- transport
\* A call on the transport succeeds only if the library does not raise (ok)
\* and the chat is in the state the call needs: join needs no active call,
\* every other call needs one.
TransportOk(s, m, c, ok) ==
    ok /\ (IF m = "join_group_call" THEN c \notin s.calls ELSE c \in s.calls)

Transport(s, m, c, arg, ok) ==
    LET done == TransportOk(s, m, c, ok) IN
    [s EXCEPT
       !.log = Append(@, [m |-> m, chat |-> c, arg |-> arg, ok |-> done]),
       !.calls = IF done /\ m = "join_group_call" THEN @ \cup {c}
                 ELSE IF done /\ m = "leave_group_call" THEN @ \ {c}
                 ELSE @]

is_in_voice_chat(s, c) == c \in s.calls

\* ------------------------------------------------------------- AudioManager
\* join_voice_chat: the chat's record is created first, then the transport is
\* asked to join; a failure is re-raised to the caller.
join_voice_chat(s, c, okJoin) ==
    LET s1 == IF ~Has(s.queues, c)
              THEN [s EXCEPT !.queues = Put(@, c, <<>>),
                             !.current_tracks = Put(@, c, None),
                             !.loop_modes = Put(@, c, "off"),
                             !.volumes = Put(@, c, DEFAULT_VOLUME)]
              ELSE s
    IN  [s |-> Transport(s1, "join_group_call", c, None, okJoin),
         raised |-> ~TransportOk(s1, "join_group_call", c, okJoin)]

\* leave_voice_chat: the record is removed only after the transport has left;
\* a failure is logged and swallowed.
\* leave_voice_chat that forgets to drop the chat's current track.
leave_voice_chat_keeps_current(s, c, okLeave) ==
    LET s1 == Transport(s, "leave_group_call", c, None, okLeave) IN
    IF TransportOk(s, "leave_group_call", c, okLeave)
    THEN [s1 EXCEPT !.queues = Pop(@, c),
                    !.loop_modes = Pop(@, c),
                    !.volumes = Pop(@, c),
                    !.paused_chats = @ \ {c}]
    ELSE s1

\* leave_voice_chat that empties the whole paused set instead of discarding
\* the one chat.
leave_voice_chat_clears_paused_set(s, c, okLeave) ==
    LET s1 == Transport(s, "leave_group_call", c, None, okLeave) IN
    IF TransportOk(s, "leave_group_call", c, okLeave)
    THEN [s1 EXCEPT !.queues = Pop(@, c),
                    !.current_tracks = Pop(@, c),
                    !.loop_modes = Pop(@, c),
                    !.volumes = Pop(@, c),
                    !.paused_chats = {}]
    ELSE s1

leave_voice_chat(s, c, okLeave) ==
    LET s1 == Transport(s, "leave_group_call", c, None, okLeave) IN
    IF TransportOk(s, "leave_group_call", c, okLeave)
    THEN [s1 EXCEPT !.queues = Pop(@, c),
                    !.current_tracks = Pop(@, c),
                    !.loop_modes = Pop(@, c),
                    !.volumes = Pop(@, c),
                    !.paused_chats = @ \ {c}]
    ELSE s1

\* add_to_queue with the capacity test off by one (> for >=).
add_to_queue_off_by_one(s, c, track) ==
    LET s1 == IF ~Has(s.queues, c) THEN [s EXCEPT !.queues = Put(@, c, <<>>)] ELSE s IN
    IF Len(s1.queues[c]) > MAX_QUEUE_SIZE
    THEN [s |-> s1, raised |-> TRUE, ret |-> 0]
    ELSE [s |-> [s1 EXCEPT !.queues[c] = Append(@, track)],
          raised |-> FALSE,
          ret |-> Len(s1.queues[c]) + 1]

\* add_to_queue: returns the 1-based position, or raises when the queue is full.
add_to_queue(s, c, track) ==
    LET s1 == IF ~Has(s.queues, c) THEN [s EXCEPT !.queues = Put(@, c, <<>>)] ELSE s IN
    IF Len(s1.queues[c]) >= MAX_QUEUE_SIZE
    THEN [s |-> s1, raised |-> TRUE, ret |-> 0]
    ELSE [s |-> [s1 EXCEPT !.queues[c] = Append(@, track)],
          raised |-> FALSE,
          ret |-> Len(s1.queues[c]) + 1]

\* play_next that streams the popped head without recording it as current.
play_next_keeps_current(s, c, okStream, okVol) ==
    IF ~Has(s.queues, c) \/ s.queues[c] = <<>>
    THEN [s |-> s, ret |-> FALSE]
    ELSE LET next_track == Head(s.queues[c])
             s1 == [s EXCEPT !.queues[c] = Tail(@)]
             s2 == Transport(s1, "change_stream", c, next_track, okStream)
         IN  IF ~TransportOk(s1, "change_stream", c, okStream)
             THEN [s |-> s2, ret |-> FALSE]
             ELSE [s |-> Transport(s2, "change_volume_call", c,
                                   Get(s2.volumes, c, DEFAULT_VOLUME), okVol),
                   ret |-> TransportOk(s2, "change_volume_call", c, okVol)]

\* play_next: pops the head into current_tracks, then streams it and applies
\* the volume; any transport failure is caught and reported as False.
\* play_next that takes the newest track of the queue instead of the oldest.
play_next_takes_last(s, c, okStream, okVol) ==
    IF ~Has(s.queues, c) \/ s.queues[c] = <<>>
    THEN [s |-> s, ret |-> FALSE]
    ELSE LET next_track == s.queues[c][Len(s.queues[c])]
             s1 == [s EXCEPT !.queues[c] = SubSeq(@, 1, Len(@) - 1),
                             !.current_tracks = Put(@, c, next_track)]
             s2 == Transport(s1, "change_stream", c, next_track, okStream)
         IN  IF ~TransportOk(s1, "change_stream", c, okStream)
             THEN [s |-> s2, ret |-> FALSE]
             ELSE [s |-> Transport(s2, "change_volume_call", c,
                                   Get(s2.volumes, c, DEFAULT_VOLUME), okVol),
                   ret |-> TransportOk(s2, "change_volume_call", c, okVol)]

play_next(s, c, okStream, okVol) ==
    IF ~Has(s.queues, c) \/ s.queues[c] = <<>>
    THEN [s |-> s, ret |-> FALSE]
    ELSE LET next_track == Head(s.queues[c])
             s1 == [s EXCEPT !.queues[c] = Tail(@),
                             !.current_tracks = Put(@, c, next_track)]
             s2 == Transport(s1, "change_stream", c, next_track, okStream)
         IN  IF ~TransportOk(s1, "change_stream", c, okStream)
             THEN [s |-> s2, ret |-> FALSE]
             ELSE [s |-> Transport(s2, "change_volume_call", c,
                                   Get(s2.volumes, c, DEFAULT_VOLUME), okVol),
                   ret |-> TransportOk(s2, "change_volume_call", c, okVol)]

\* pause that marks the chat paused before the transport call has succeeded.
pause_marks_before_call(s, c, okPause) ==
    IF is_in_voice_chat(s, c) /\ c \notin s.paused_chats
    THEN LET s1 == Transport([s EXCEPT !.paused_chats = @ \cup {c}],
                             "pause_stream", c, None, okPause)
         IN  [s |-> s1, ret |-> TransportOk(s, "pause_stream", c, okPause)]
    ELSE [s |-> s, ret |-> FALSE]

pause(s, c, okPause) ==
    IF is_in_voice_chat(s, c) /\ c \notin s.paused_chats
    THEN LET s1 == Transport(s, "pause_stream", c, None, okPause) IN
         IF TransportOk(s, "pause_stream", c, okPause)
         THEN [s |-> [s1 EXCEPT !.paused_chats = @ \cup {c}], ret |-> TRUE]
         ELSE [s |-> s1, ret |-> FALSE]
    ELSE [s |-> s, ret |-> FALSE]

\* resume without the test that the chat is marked paused.
resume_unguarded(s, c, okResume) ==
    LET s1 == Transport(s, "resume_stream", c, None, okResume) IN
    IF TransportOk(s, "resume_stream", c, okResume)
    THEN [s |-> [s1 EXCEPT !.paused_chats = @ \ {c}], ret |-> TRUE]
    ELSE [s |-> s1, ret |-> FALSE]

resume(s, c, okResume) ==
    IF c \in s.paused_chats
    THEN LET s1 == Transport(s, "resume_stream", c, None, okResume) IN
         IF TransportOk(s, "resume_stream", c, okResume)
         THEN [s |-> [s1 EXCEPT !.paused_chats = @ \ {c}], ret |-> TRUE]
         ELSE [s |-> s1, ret |-> FALSE]
    ELSE [s |-> s, ret |-> FALSE]

skip(s, c, okStream, okVol) ==
    IF Has(s.current_tracks, c)
    THEN play_next(s, c, okStream, okVol)
    ELSE [s |-> s, ret |-> FALSE]

\* stop without the is_in_voice_chat test.
stop_unguarded(s, c, okLeave) == leave_voice_chat(s, c, okLeave)

stop(s, c, okLeave) ==
    IF is_in_voice_chat(s, c) THEN leave_voice_chat(s, c, okLeave) ELSE s

get_queue(s, c) == Get(s.queues, c, <<>>)
get_current_track(s, c) == Get(s.current_tracks, c, None)
get_loop_mode(s, c) == Get(s.loop_modes, c, "off")
get_volume(s, c) == Get(s.volumes, c, DEFAULT_VOLUME)

\* random.shuffle: any permutation of the queue, chosen by the caller of the model.
QueuePermutations(q) ==
    { p \in [1 .. Len(q) -> 1 .. Len(q)] :
        \A i, j \in 1 .. Len(q) : i # j => p[i] # p[j] }
Shuffled(q) == { [i \in 1 .. Len(q) |-> q[p[i]]] : p \in QueuePermutations(q) }

\* shuffle_queue that gives a chat it does not know an empty queue.
shuffle_queue_creates_entry(s, c, shuffled) ==
    IF Has(s.queues, c) /\ s.queues[c] # <<>>
    THEN [s |-> [s EXCEPT !.queues[c] = shuffled], ret |-> TRUE]
    ELSE [s |-> [s EXCEPT !.queues = Put(@, c, <<>>)], ret |-> FALSE]

\* shuffle_queue that loses the first track of the shuffled list.
shuffle_queue_drops_one(s, c, shuffled) ==
    IF Has(s.queues, c) /\ s.queues[c] # <<>>
    THEN [s |-> [s EXCEPT !.queues[c] = Tail(shuffled)], ret |-> TRUE]
    ELSE [s |-> s, ret |-> FALSE]

shuffle_queue(s, c, shuffled) ==
    IF Has(s.queues, c) /\ s.queues[c] # <<>>
    THEN [s |-> [s EXCEPT !.queues[c] = shuffled], ret |-> TRUE]
    ELSE [s |-> s, ret |-> FALSE]

\* clear_queue that creates an empty queue for a chat it does not know.
clear_queue_creates_entry(s, c) == [s EXCEPT !.queues = Put(@, c, <<>>)]

clear_queue(s, c) ==
    IF Has(s.queues, c) THEN [s EXCEPT !.queues[c] = <<>>] ELSE s

\* set_loop_mode that also takes the chat out of the paused set.
set_loop_mode_clears_pause(s, c, mode) ==
    [s EXCEPT !.loop_modes = Put(@, c, mode), !.paused_chats = @ \ {c}]

set_loop_mode(s, c, mode) == [s EXCEPT !.loop_modes = Put(@, c, mode)]

set_volume(s, c, volume, okVol) ==
    LET s1 == [s EXCEPT !.volumes = Put(@, c, volume)] IN
    IF is_in_voice_chat(s1, c)
    THEN Transport(s1, "change_volume_call", c, volume, okVol)
    ELSE s1

\* _on_stream_end whose loop=queue branch appends the finished track twice.
on_stream_end_requeues_twice(s, c, okStream, okVol, okLeave) ==
    LET loop_mode == Get(s.loop_modes, c, "off")
        current_track == Get(s.current_tracks, c, None)
    IN  IF loop_mode = "song" /\ current_track # None
        THEN [s |-> Transport(s, "change_stream", c, current_track, okStream),
              raised |-> FALSE]
        ELSE IF loop_mode = "queue" /\ current_track # None
        THEN IF ~Has(s.queues, c)
             THEN [s |-> s, raised |-> TRUE]
             ELSE [s |-> play_next([s EXCEPT !.queues[c] =
                                       Append(Append(@, current_track), current_track)],
                                   c, okStream, okVol).s,
                   raised |-> FALSE]
        ELSE LET r == play_next(s, c, okStream, okVol) IN
             [s |-> IF ~r.ret THEN leave_voice_chat(r.s, c, okLeave) ELSE r.s,
              raised |-> FALSE]

\* _on_stream_end whose loop=queue branch forgets to re-append the finished track.
on_stream_end_no_requeue(s, c, okStream, okVol, okLeave) ==
    LET loop_mode == Get(s.loop_modes, c, "off")
        current_track == Get(s.current_tracks, c, None)
    IN  IF loop_mode = "song" /\ current_track # None
        THEN [s |-> Transport(s, "change_stream", c, current_track, okStream),
              raised |-> FALSE]
        ELSE IF loop_mode = "queue" /\ current_track # None
        THEN IF ~Has(s.queues, c)
             THEN [s |-> s, raised |-> TRUE]
             ELSE [s |-> play_next(s, c, okStream, okVol).s, raised |-> FALSE]
        ELSE LET r == play_next(s, c, okStream, okVol) IN
             [s |-> IF ~r.ret THEN leave_voice_chat(r.s, c, okLeave) ELSE r.s,
              raised |-> FALSE]

\* _on_stream_end that treats loop=song like loop=off.
on_stream_end_ignores_song_loop(s, c, okStream, okVol, okLeave) ==
    LET loop_mode == Get(s.loop_modes, c, "off")
        current_track == Get(s.current_tracks, c, None)
    IN  IF loop_mode = "queue" /\ current_track # None
        THEN IF ~Has(s.queues, c)
             THEN [s |-> s, raised |-> TRUE]
             ELSE [s |-> play_next([s EXCEPT !.queues[c] = Append(@, current_track)],
                                   c, okStream, okVol).s,
                   raised |-> FALSE]
        ELSE LET r == play_next(s, c, okStream, okVol) IN
             [s |-> IF ~r.ret THEN leave_voice_chat(r.s, c, okLeave) ELSE r.s,
              raised |-> FALSE]

\* _on_stream_end: the three-way loop policy of the stream-end notification.
\* The queue branch indexes self.queues[chat_id] unguarded: a missing key raises.
on_stream_end(s, c, okStream, okVol, okLeave) ==
    LET loop_mode == Get(s.loop_modes, c, "off")
        current_track == Get(s.current_tracks, c, None)
    IN  IF loop_mode = "song" /\ current_track # None
        THEN [s |-> Transport(s, "change_stream", c, current_track, okStream),
              raised |-> FALSE]
        ELSE IF loop_mode = "queue" /\ current_track # None
        THEN IF ~Has(s.queues, c)
             THEN [s |-> s, raised |-> TRUE]
             ELSE [s |-> play_next([s EXCEPT !.queues[c] = Append(@, current_track)],
                                   c, okStream, okVol).s,
                   raised |-> FALSE]
        ELSE LET r == play_next(s, c, okStream, okVol) IN
             [s |-> IF ~r.ret THEN leave_voice_chat(r.s, c, okLeave) ELSE r.s,
              raised |-> FALSE]

voice_chat_ended(s, c, okLeave) == stop(s, c, okLeave)
\* ------------------------------------------------------------ MusicHandler
\* What search_and_download hands back: a track, None (no results), or an
\* exception (download failed, song too long).
ResolveFailed == -1
Resolved == Songs \cup {None, ResolveFailed}

\* ---------------------------------------------------------- YouTubeDownloader
\* A request names a media item: one of the songs, an item longer than the
\* limit, nothing at all (None), or an item whose download fails.
TooLong == NumSongs + 1
Requests == Resolved \cup {TooLong}

\* Length of an item in seconds; song 1 is exactly as long as the limit.
duration_seconds(media) ==
    IF media = TooLong THEN MAX_SONG_DURATION + 1
    ELSE IF media = 1 THEN MAX_SONG_DURATION
    ELSE 0

\* search_youtube drops results longer than the limit; an empty list is None.
search_youtube(media) ==
    IF media \in {None, ResolveFailed} THEN media
    ELSE IF duration_seconds(media) > MAX_SONG_DURATION THEN None
    ELSE media

\* download_audio raises for an item longer than the limit.
download_audio(media) ==
    IF media = ResolveFailed THEN ResolveFailed
    ELSE IF duration_seconds(media) > MAX_SONG_DURATION THEN ResolveFailed
    ELSE media

\* A URL is downloaded directly; a query is searched first.
search_and_download(media, byUrl) ==
    IF byUrl THEN download_audio(media)
    ELSE IF search_youtube(media) = None THEN None
    ELSE download_audio(search_youtube(media))

Reply(kind, n) == [kind |-> kind, n |-> n]

\* /play: join if needed, resolve, enqueue, and start playback when the
\* returned position is 1.
MusicHandler_play(s, c, media, byUrl, okJoin, okStream, okVol) ==
    LET j == IF ~is_in_voice_chat(s, c)
             THEN join_voice_chat(s, c, okJoin)
             ELSE [s |-> s, raised |-> FALSE]
        track_info == search_and_download(media, byUrl)
    IN  IF j.raised THEN [s |-> j.s, reply |-> Reply("join_failed", 0)]
        ELSE IF track_info = ResolveFailed THEN [s |-> j.s, reply |-> Reply("error", 0)]
        ELSE IF track_info = None THEN [s |-> j.s, reply |-> Reply("no_results", 0)]
        ELSE LET a == add_to_queue(j.s, c, track_info) IN
             IF a.raised THEN [s |-> a.s, reply |-> Reply("error", 0)]
             ELSE IF a.ret = 1
             THEN [s |-> play_next(a.s, c, okStream, okVol).s,
                   reply |-> Reply("now_playing", track_info)]
             ELSE [s |-> a.s, reply |-> Reply("added", a.ret)]

MusicHandler_pause(s, c, okPause) ==
    LET r == pause(s, c, okPause) IN
    [s |-> r.s, reply |-> Reply(IF r.ret THEN "paused" ELSE "nothing_playing", 0)]

MusicHandler_resume(s, c, okResume) ==
    LET r == resume(s, c, okResume) IN
    [s |-> r.s, reply |-> Reply(IF r.ret THEN "resumed" ELSE "nothing_paused", 0)]

\* /skip: replies "Skipped: <title>" whenever a current track was recorded.
MusicHandler_skip(s, c, okStream, okVol) ==
    LET current_track == get_current_track(s, c) IN
    IF current_track = None
    THEN [s |-> s, reply |-> Reply("nothing_playing", 0)]
    ELSE [s |-> skip(s, c, okStream, okVol).s, reply |-> Reply("skipped", current_track)]

MusicHandler_stop(s, c, okLeave) ==
    [s |-> stop(s, c, okLeave), reply |-> Reply("stopped_and_cleared", 0)]

MusicHandler_shuffle_queue(s, c, shuffled) ==
    LET r == shuffle_queue(s, c, shuffled) IN
    [s |-> r.s, reply |-> Reply(IF r.ret THEN "shuffled" ELSE "queue_empty", 0)]

\* /loop <mode>: the argument is checked against the three modes.
LoopArgs == LoopModes \cup {"none", "bogus"}

\* /loop that stores whatever mode it is given.
MusicHandler_loop_unchecked(s, c, arg) ==
    IF arg = "none" THEN [s |-> s, reply |-> Reply("loop_shown", 0)]
    ELSE [s |-> set_loop_mode(s, c, arg), reply |-> Reply("loop_set", 0)]

MusicHandler_loop(s, c, arg) ==
    IF arg = "none" THEN [s |-> s, reply |-> Reply("loop_shown", 0)]
    ELSE IF arg \notin {"off", "song", "queue"}
    THEN [s |-> s, reply |-> Reply("invalid_loop", 0)]
    ELSE [s |-> set_loop_mode(s, c, arg), reply |-> Reply("loop_set", 0)]

\* int(context.args[0]) of an argument that is no integer raises ValueError.
NotAnInteger == -1

\* /volume without the upper limit of the range test.
MusicHandler_volume_no_upper_limit(s, c, level, okVol) ==
    IF level = NotAnInteger \/ ~(1 <= level)
    THEN [s |-> s, reply |-> Reply("invalid_volume", 0)]
    ELSE [s |-> set_volume(s, c, level, okVol), reply |-> Reply("volume_set", level)]

\* /volume <level>: the argument is parsed and checked against 1..200; a
\* parse failure and a level out of range get the same reply.
MusicHandler_volume(s, c, level, okVol) ==
    IF level = NotAnInteger \/ ~(1 <= level /\ level <= 200)
    THEN [s |-> s, reply |-> Reply("invalid_volume", 0)]
    ELSE [s |-> set_volume(s, c, level, okVol), reply |-> Reply("volume_set", level)]

MusicHandler_voice_chat_update(s, c, okLeave) ==
    [s |-> voice_chat_ended(s, c, okLeave), reply |-> Reply("voice_chat_ended", 0)]

\* ---------------------------------------------------------- CallbackHandler
CallbackHandler_handle_join_vc(s, c, okJoin) ==
    IF is_in_voice_chat(s, c)
    THEN [s |-> s, reply |-> Reply("already_connected", 0)]
    ELSE LET j == join_voice_chat(s, c, okJoin) IN
         [s |-> j.s, reply |-> Reply(IF j.raised THEN "join_failed" ELSE "joined", 0)]

CallbackHandler_handle_pause(s, c, okPause) ==
    LET r == pause(s, c, okPause) IN
    [s |-> r.s, reply |-> Reply(IF r.ret THEN "paused" ELSE "nothing_playing", 0)]

CallbackHandler_handle_resume(s, c, okResume) ==
    LET r == resume(s, c, okResume) IN
    [s |-> r.s, reply |-> Reply(IF r.ret THEN "resumed" ELSE "nothing_paused", 0)]

CallbackHandler_handle_skip(s, c, okStream, okVol) ==
    LET current_track == get_current_track(s, c) IN
    IF current_track = None
    THEN [s |-> s, reply |-> Reply("nothing_playing", 0)]
    ELSE [s |-> skip(s, c, okStream, okVol).s, reply |-> Reply("skipped", current_track)]

CallbackHandler_handle_stop(s, c, okLeave) ==
    [s |-> stop(s, c, okLeave), reply |-> Reply("stopped_and_cleared", 0)]

CallbackHandler_handle_shuffle(s, c, shuffled) ==
    LET r == shuffle_queue(s, c, shuffled) IN
    [s |-> r.s, reply |-> Reply(IF r.ret THEN "shuffled" ELSE "queue_empty", 0)]

CallbackHandler_handle_clear_queue(s, c) ==
    [s |-> clear_queue(s, c), reply |-> Reply("queue_cleared", 0)]

\* The loop button going from song straight back to off.
CallbackHandler_handle_loop_skips_queue(s, c) ==
    LET current_mode == get_loop_mode(s, c)
        new_mode == IF current_mode = "off" THEN "song" ELSE "off"
    IN  [s |-> set_loop_mode(s, c, new_mode), reply |-> Reply("loop_set", 0)]

\* The loop button cycles off -> song -> queue -> off.
CallbackHandler_handle_loop(s, c) ==
    LET current_mode == get_loop_mode(s, c)
        new_mode == IF current_mode = "off" THEN "song"
                    ELSE IF current_mode = "song" THEN "queue"
                    ELSE "off"
    IN  [s |-> set_loop_mode(s, c, new_mode), reply |-> Reply("loop_set", 0)]
\* ------------------------------------------------------------------ actions
Init ==
    /\ queues = EmptyDict
    /\ current_tracks = EmptyDict
    /\ loop_modes = EmptyDict
    /\ volumes = EmptyDict
    /\ paused_chats = {}
    /\ calls = {}
    /\ transport_log = <<>>
    /\ last = [op |-> "init", chat |-> None, arg |-> None, reply |-> Reply("none", 0)]
    /\ tasks = [t \in Coroutines |-> Idle]
    /\ issued = <<>>
    /\ start = State
    /\ users = EmptyDict
    /\ rate_limit_storage = EmptyDict
    /\ now = 0
    /\ admissions = [u \in Users |-> <<>>]
    /\ requester = None

\* The handler's result becomes the next state; the log holds its transport calls.
Playback(r, op, c, arg) ==
    /\ queues' = r.s.queues
    /\ current_tracks' = r.s.current_tracks
    /\ loop_modes' = r.s.loop_modes
    /\ volumes' = r.s.volumes
    /\ paused_chats' = r.s.paused_chats
    /\ calls' = r.s.calls
    /\ transport_log' = r.s.log
    /\ last' = [op |-> op, chat |-> c, arg |-> arg, reply |-> r.reply]
    /\ UNCHANGED <<tasks, issued, start>>

Commit(r, op, c, arg) == Playback(r, op, c, arg) /\ UNCHANGED access

Play(c) ==
    \E media \in Requests, byUrl, okJoin, okStream, okVol \in BOOLEAN :
        Commit(MusicHandler_play(State, c, media, byUrl, okJoin, okStream, okVol),
               "play", c, media)

Pause(c) ==
    \E okPause \in BOOLEAN :
        Commit(MusicHandler_pause(State, c, okPause), "pause", c, None)

Resume(c) ==
    \E okResume \in BOOLEAN :
        Commit(MusicHandler_resume(State, c, okResume), "resume", c, None)

Skip(c) ==
    \E okStream, okVol \in BOOLEAN :
        Commit(MusicHandler_skip(State, c, okStream, okVol), "skip", c, None)

Stop(c) ==
    \E okLeave \in BOOLEAN :
        Commit(MusicHandler_stop(State, c, okLeave), "stop", c, None)

Shuffle(c) ==
    \E shuffled \in Shuffled(get_queue(State, c)) :
        Commit(MusicHandler_shuffle_queue(State, c, shuffled), "shuffle", c, None)

Loop(c) ==
    \E arg \in LoopArgs :
        Commit(MusicHandler_loop(State, c, arg), "loop", c, None)

Volume(c) ==
    \E level \in VolumeArgs, okVol \in BOOLEAN :
        Commit(MusicHandler_volume(State, c, level, okVol), "volume", c, level)

JoinButton(c) ==
    \E okJoin \in BOOLEAN :
        Commit(CallbackHandler_handle_join_vc(State, c, okJoin), "join_vc", c, None)

ClearButton(c) ==
    Commit(CallbackHandler_handle_clear_queue(State, c), "clear_queue", c, None)

LoopButton(c) ==
    Commit(CallbackHandler_handle_loop(State, c), "loop_button", c, None)

\* The transport reports that the stream of chat c has finished.
StreamEnd(c) ==
    \E okStream, okVol, okLeave \in BOOLEAN :
        LET r == on_stream_end(State, c, okStream, okVol, okLeave) IN
        Commit([s |-> r.s,
                reply |-> Reply(IF r.raised THEN "raised" ELSE "none", 0)],
               "stream_end", c, None)

\* The voice chat is closed from outside: the transport drops its call, then
\* the service message reaches voice_chat_update.
VoiceChatEnded(c) ==
    /\ c \in calls
    /\ \E okLeave \in BOOLEAN :
        Commit(MusicHandler_voice_chat_update(
                   [State EXCEPT !.calls = @ \ {c}], c, okLeave),
               "voice_chat_ended", c, None)

Next ==
    \E c \in Chats :
        \/ Play(c)
        \/ Pause(c)
        \/ Resume(c)
        \/ Skip(c)
        \/ Stop(c)
        \/ Shuffle(c)
        \/ Loop(c)
        \/ Volume(c)
        \/ JoinButton(c)
        \/ ClearButton(c)
        \/ LoopButton(c)
        \/ StreamEnd(c)
        \/ VoiceChatEnded(c)

Spec == Init /\ [][Next]_vars
\* ------------------------------------------- the AudioManager on its own
\* The handlers above are the only callers of the AudioManager in the bot, and
\* /play starts playback whenever add_to_queue returns 1, so under Spec a queue
\* is never left non-empty.  ManagerSpec drives the public methods of the
\* AudioManager directly, in any order, as the component the stated contract is
\* about; every state of Spec is a state of ManagerSpec.  The arguments are
\* those the handlers pass: a resolved track, a valid mode, a level in 1..200.
VolumeLevels == {1, 200}

Ret(r) == [s |-> r.s, reply |-> Reply(IF r.ret THEN "true" ELSE "false", 0)]
Done(s) == [s |-> s, reply |-> Reply("none", 0)]

ApiJoin(c) ==
    \E okJoin \in BOOLEAN :
        LET r == join_voice_chat(State, c, okJoin) IN
        Commit([s |-> r.s, reply |-> Reply(IF r.raised THEN "raised" ELSE "none", 0)],
               "join_voice_chat", c, None)

ApiLeave(c) ==
    \E okLeave \in BOOLEAN :
        Commit(Done(leave_voice_chat(State, c, okLeave)), "leave_voice_chat", c, None)

ApiAddToQueue(c) ==
    \E track \in Songs :
        LET r == add_to_queue(State, c, track) IN
        Commit([s |-> r.s,
                reply |-> IF r.raised THEN Reply("raised", 0) ELSE Reply("position", r.ret)],
               "add_to_queue", c, track)

ApiPlayNext(c) ==
    \E okStream, okVol \in BOOLEAN :
        Commit(Ret(play_next(State, c, okStream, okVol)), "play_next", c, None)

ApiPause(c) ==
    \E okPause \in BOOLEAN : Commit(Ret(pause(State, c, okPause)), "pause", c, None)

ApiResume(c) ==
    \E okResume \in BOOLEAN : Commit(Ret(resume(State, c, okResume)), "resume", c, None)

ApiSkip(c) ==
    \E okStream, okVol \in BOOLEAN :
        Commit(Ret(skip(State, c, okStream, okVol)), "skip", c, None)

ApiStop(c) ==
    \E okLeave \in BOOLEAN : Commit(Done(stop(State, c, okLeave)), "stop", c, None)

ApiShuffle(c) ==
    \E shuffled \in Shuffled(get_queue(State, c)) :
        Commit(Ret(shuffle_queue(State, c, shuffled)), "shuffle", c, None)

ApiClear(c) == Commit(Done(clear_queue(State, c)), "clear_queue", c, None)

ApiSetLoopMode(c) ==
    \E mode \in LoopModes :
        Commit(Done(set_loop_mode(State, c, mode)), "set_loop_mode", c, None)

ApiSetVolume(c) ==
    \E level \in VolumeLevels, okVol \in BOOLEAN :
        Commit(Done(set_volume(State, c, level, okVol)), "set_volume", c, level)

\* The voice chat is closed from outside; voice_chat_ended runs afterwards.
ApiVoiceChatEnded(c) ==
    /\ c \in calls
    /\ \E okLeave \in BOOLEAN :
        Commit(Done(voice_chat_ended([State EXCEPT !.calls = @ \ {c}], c, okLeave)),
               "voice_chat_ended", c, None)

ManagerNext ==
    \E c \in Chats :
        \/ ApiJoin(c)
        \/ ApiLeave(c)
        \/ ApiAddToQueue(c)
        \/ ApiPlayNext(c)
        \/ ApiPause(c)
        \/ ApiResume(c)
        \/ ApiSkip(c)
        \/ ApiStop(c)
        \/ ApiShuffle(c)
        \/ ApiClear(c)
        \/ ApiSetLoopMode(c)
        \/ ApiSetVolume(c)
        \/ StreamEnd(c)
        \/ ApiVoiceChatEnded(c)

ManagerSpec == Init /\ [][ManagerNext]_vars

\* ------------------------------------------------------------- two chats
\* The manager serving two chats at once.  Each chat requests its own track,
\* so a track found in the other chat's record has crossed over.  Of a step
\* only the chat it was addressed to is recorded.
IsoChats == {1, 2}
RequestedIn(c) == c

Addressed(s, c) ==
    /\ queues' = s.queues
    /\ current_tracks' = s.current_tracks
    /\ loop_modes' = s.loop_modes
    /\ volumes' = s.volumes
    /\ paused_chats' = s.paused_chats
    /\ calls' = s.calls
    /\ transport_log' = <<>>
    /\ last' = [op |-> "addressed", chat |-> c, arg |-> None, reply |-> Reply("none", 0)]
    /\ UNCHANGED <<tasks, issued, start>>
    /\ UNCHANGED access

IsoJoin(c) == \E okJoin \in BOOLEAN : Addressed(join_voice_chat(State, c, okJoin).s, c)
IsoLeave(c) == \E okLeave \in BOOLEAN : Addressed(leave_voice_chat(State, c, okLeave), c)
IsoAddToQueue(c) == Addressed(add_to_queue(State, c, RequestedIn(c)).s, c)
IsoPlayNext(c) ==
    \E okStream, okVol \in BOOLEAN : Addressed(play_next(State, c, okStream, okVol).s, c)
IsoPause(c) == \E okPause \in BOOLEAN : Addressed(pause(State, c, okPause).s, c)
IsoResume(c) == \E okResume \in BOOLEAN : Addressed(resume(State, c, okResume).s, c)
IsoSkip(c) ==
    \E okStream, okVol \in BOOLEAN : Addressed(skip(State, c, okStream, okVol).s, c)
IsoStop(c) == \E okLeave \in BOOLEAN : Addressed(stop(State, c, okLeave), c)
IsoShuffle(c) ==
    \E shuffled \in Shuffled(get_queue(State, c)) :
        Addressed(shuffle_queue(State, c, shuffled).s, c)
IsoClear(c) == Addressed(clear_queue(State, c), c)
IsoSetLoopMode(c) == Addressed(set_loop_mode(State, c, "queue"), c)
IsoSetVolume(c) ==
    \E okVol \in BOOLEAN : Addressed(set_volume(State, c, 2 * DEFAULT_VOLUME, okVol), c)
IsoStreamEnd(c) ==
    \E okStream, okVol, okLeave \in BOOLEAN :
        Addressed(on_stream_end(State, c, okStream, okVol, okLeave).s, c)

IsoNext ==
    \E c \in IsoChats :
        \/ IsoJoin(c)
        \/ IsoLeave(c)
        \/ IsoAddToQueue(c)
        \/ IsoPlayNext(c)
        \/ IsoPause(c)
        \/ IsoResume(c)
        \/ IsoSkip(c)
        \/ IsoStop(c)
        \/ IsoShuffle(c)
        \/ IsoClear(c)
        \/ IsoSetLoopMode(c)
        \/ IsoSetVolume(c)
        \/ IsoStreamEnd(c)

IsoSpec == Init /\ [][IsoNext]_vars

\* ------------------------------------------------ draining a queue, loop off
\* A chat is set up by join, enqueue and advance; from the first stream-end
\* notification on nothing is enqueued any more and only notifications
\* arrive.  The transport sends one notification per stream it plays: the
\* first for whatever the session was playing, each later one only if the
\* previous handler got a new stream started.
Draining == last.op = "stream_end"

StreamPlaying(c) ==
    /\ c \in calls
    /\ Draining =>
         \E i \in 1 .. Len(transport_log) :
            transport_log[i].m = "change_stream" /\ transport_log[i].ok

Enqueueing(c) ==
    /\ ~Draining
    /\ \/ ApiJoin(c)
       \/ ApiAddToQueue(c)
       \/ ApiPlayNext(c)

Delivered(c) == StreamPlaying(c) /\ StreamEnd(c)

LiveNext == \E c \in Chats : Enqueueing(c) \/ Delivered(c)

\* Every stream that plays ends, and its notification is delivered.
LiveSpec ==
    Init /\ [][LiveNext]_vars /\ WF_vars(\E c \in Chats : Delivered(c))

\* ------------------------------------------------- coroutines, await by await
\* A coroutine runs without interruption up to the transport call it awaits;
\* while it is suspended there the other coroutine may run.  The model below
\* steps skip and _on_stream_end from await to await.  The manager's methods
\* called in between (get, pop, append) never suspend.  In this part
\* transport_log holds the calls the transport has completed since the first
\* coroutine began, in completion order.
AllIdle == \A t \in Tasks : tasks[t].at = "idle"
InFlight(t) == tasks[t].at \in {"change_stream", "change_volume_call", "leave_group_call"}

\* The coroutine hands a call to the transport and is suspended on it.
Issue(t, branch, c, m, arg) ==
    /\ tasks' = [tasks EXCEPT ![t] = [at |-> m, branch |-> branch, chat |-> c, arg |-> arg]]
    /\ issued' = Append(issued, [m |-> m, arg |-> arg])

Finish(t) ==
    /\ tasks' = [tasks EXCEPT ![t] = [at |-> "done", branch |-> @.branch,
                                       chat |-> @.chat, arg |-> None]]
    /\ issued' = issued

\* The first coroutine to begin fixes the state the race started from.
Begin ==
    IF AllIdle THEN start' = State /\ transport_log' = <<>>
    ELSE UNCHANGED <<start, transport_log>>

\* play_next up to its first await: the head of the queue is popped and
\* recorded as current, then change_stream is awaited.
PlayNextBegin(t, branch, c, q) ==
    /\ queues' = [queues EXCEPT ![c] = Tail(q)]
    /\ current_tracks' = Put(current_tracks, c, Head(q))
    /\ Issue(t, branch, c, "change_stream", Head(q))

\* play_next has returned False to the coroutine's own code.
PlayNextFalse(t, c) ==
    IF tasks[t].branch = "off"
    THEN Issue(t, "off", c, "leave_group_call", None)
    ELSE Finish(t)

\* The awaited call completes; the transport's answer is an input.
Complete(t, ok) ==
    LET s == Transport([State EXCEPT !.log = transport_log],
                       tasks[t].at, tasks[t].chat, tasks[t].arg, ok)
    IN  /\ calls' = s.calls
        /\ transport_log' = s.log

SkipBegin(c) ==
    /\ tasks["skip"].at = "idle"
    /\ Begin
    /\ IF Has(current_tracks, c) /\ Has(queues, c) /\ queues[c] # <<>>
       THEN PlayNextBegin("skip", "skip", c, queues[c])
       ELSE Finish("skip") /\ UNCHANGED <<queues, current_tracks>>
    /\ UNCHANGED <<loop_modes, volumes, paused_chats, calls, last>>
    /\ UNCHANGED access

StreamEndBegin(c) ==
    /\ tasks["stream_end"].at = "idle"
    /\ Begin
    /\ LET loop_mode == Get(loop_modes, c, "off")
           current_track == Get(current_tracks, c, None)
       IN  IF loop_mode = "song" /\ current_track # None
           THEN /\ Issue("stream_end", "song", c, "change_stream", current_track)
                /\ UNCHANGED <<queues, current_tracks>>
           ELSE IF loop_mode = "queue" /\ current_track # None
           THEN IF ~Has(queues, c)
                THEN Finish("stream_end") /\ UNCHANGED <<queues, current_tracks>>
                ELSE PlayNextBegin("stream_end", "queue", c,
                                   Append(queues[c], current_track))
           ELSE IF Has(queues, c) /\ queues[c] # <<>>
                THEN PlayNextBegin("stream_end", "off", c, queues[c])
                ELSE /\ Issue("stream_end", "off", c, "leave_group_call", None)
                     /\ UNCHANGED <<queues, current_tracks>>
    /\ UNCHANGED <<loop_modes, volumes, paused_chats, calls, last>>
    /\ UNCHANGED access

\* change_stream returns or raises.  In play_next a success goes on to the
\* volume call; the repeat of _on_stream_end ends either way.
StreamChanged(t) ==
    /\ tasks[t].at = "change_stream"
    /\ \E ok \in BOOLEAN :
        /\ Complete(t, ok)
        /\ IF tasks[t].branch = "song"
           THEN Finish(t)
           ELSE IF TransportOk(State, "change_stream", tasks[t].chat, ok)
           THEN Issue(t, tasks[t].branch, tasks[t].chat, "change_volume_call",
                      Get(volumes, tasks[t].chat, DEFAULT_VOLUME))
           ELSE PlayNextFalse(t, tasks[t].chat)
    /\ UNCHANGED <<queues, current_tracks, loop_modes, volumes, paused_chats,
                   last, start>>
    /\ UNCHANGED access

VolumeChanged(t) ==
    /\ tasks[t].at = "change_volume_call"
    /\ \E ok \in BOOLEAN :
        /\ Complete(t, ok)
        /\ IF TransportOk(State, "change_volume_call", tasks[t].chat, ok)
           THEN Finish(t)
           ELSE PlayNextFalse(t, tasks[t].chat)
    /\ UNCHANGED <<queues, current_tracks, loop_modes, volumes, paused_chats,
                   last, start>>
    /\ UNCHANGED access

\* leave_group_call returns or raises; leave_voice_chat drops the chat's
\* record only after a successful leave.
Left(t) ==
    /\ tasks[t].at = "leave_group_call"
    /\ \E ok \in BOOLEAN :
        LET c == tasks[t].chat IN
        /\ Complete(t, ok)
        /\ Finish(t)
        /\ IF TransportOk(State, "leave_group_call", c, ok)
           THEN /\ queues' = Pop(queues, c)
                /\ current_tracks' = Pop(current_tracks, c)
                /\ loop_modes' = Pop(loop_modes, c)
                /\ volumes' = Pop(volumes, c)
                /\ paused_chats' = paused_chats \ {c}
           ELSE UNCHANGED <<queues, current_tracks, loop_modes, volumes, paused_chats>>
    /\ UNCHANGED <<last, start>>
    /\ UNCHANGED access

\* Before the race the chat is brought into a playing state by the manager's
\* own methods.
Prepare(c) ==
    /\ AllIdle
    /\ \/ ApiJoin(c)
       \/ ApiAddToQueue(c)
       \/ ApiPlayNext(c)
       \/ ApiSetLoopMode(c)

ConcNext ==
    \/ \E c \in Chats : Prepare(c)
    \/ \E c \in Chats : SkipBegin(c)
    \/ \E c \in Chats : StreamEndBegin(c)
    \/ \E t \in Tasks : StreamChanged(t)
    \/ \E t \in Tasks : VolumeChanged(t)
    \/ \E t \in Tasks : Left(t)

ConcSpec == Init /\ [][ConcNext]_vars
\* ------------------------------------------ /play against the teardown
\* /play stepped from await to await next to the stream-end callback.  Its
\* awaits are the join, the search and download, and the two transport calls
\* of play_next; add_to_queue and the first half of play_next never suspend.
\* last holds the request: its resolved track while it runs, its answer at
\* the end.
Suspend(at, c) ==
    /\ tasks' = [tasks EXCEPT !["play"] = [at |-> at, branch |-> "play",
                                            chat |-> c, arg |-> None]]
    /\ issued' = issued

Answer(kind, n) == last' = [last EXCEPT !.reply = Reply(kind, n)]

\* Up to the first await: the voice chat is joined unless the bot is in it.
PlayBegin(c) ==
    /\ tasks["play"].at = "idle"
    /\ \E media \in Requests, byUrl \in BOOLEAN :
        last' = [op |-> "play", chat |-> c, arg |-> search_and_download(media, byUrl),
                 reply |-> Reply("pending", 0)]
    /\ IF is_in_voice_chat(State, c)
       THEN /\ Suspend("download", c)
            /\ UNCHANGED <<queues, current_tracks, loop_modes, volumes>>
       ELSE /\ Issue("play", "play", c, "join_group_call", None)
            /\ IF ~Has(queues, c)
               THEN /\ queues' = Put(queues, c, <<>>)
                    /\ current_tracks' = Put(current_tracks, c, None)
                    /\ loop_modes' = Put(loop_modes, c, "off")
                    /\ volumes' = Put(volumes, c, DEFAULT_VOLUME)
               ELSE UNCHANGED <<queues, current_tracks, loop_modes, volumes>>
    /\ UNCHANGED <<paused_chats, calls, transport_log, start>>
    /\ UNCHANGED access

PlayJoined ==
    /\ tasks["play"].at = "join_group_call"
    /\ \E ok \in BOOLEAN :
        /\ Complete("play", ok)
        /\ IF TransportOk(State, "join_group_call", tasks["play"].chat, ok)
           THEN Suspend("download", tasks["play"].chat) /\ last' = last
           ELSE Finish("play") /\ Answer("join_failed", 0)
    /\ UNCHANGED <<queues, current_tracks, loop_modes, volumes, paused_chats, start>>
    /\ UNCHANGED access

\* The download returns: the track is queued and, at position 1, play_next
\* pops it, records it as current and awaits change_stream.
PlayDownloaded ==
    /\ tasks["play"].at = "download"
    /\ LET c == tasks["play"].chat
           track_info == last.arg
           a == add_to_queue(State, c, track_info)
       IN  IF track_info = ResolveFailed
           THEN Finish("play") /\ Answer("error", 0)
                /\ UNCHANGED <<queues, current_tracks>>
           ELSE IF track_info = None
           THEN Finish("play") /\ Answer("no_results", 0)
                /\ UNCHANGED <<queues, current_tracks>>
           ELSE IF a.raised
           THEN Finish("play") /\ Answer("error", 0)
                /\ queues' = a.s.queues /\ UNCHANGED current_tracks
           ELSE IF a.ret = 1
           THEN /\ queues' = [a.s.queues EXCEPT ![c] = Tail(@)]
                /\ current_tracks' = Put(current_tracks, c, Head(a.s.queues[c]))
                /\ Issue("play", "play", c, "change_stream", Head(a.s.queues[c]))
                /\ last' = last
           ELSE Finish("play") /\ Answer("added", a.ret)
                /\ queues' = a.s.queues /\ UNCHANGED current_tracks
    /\ UNCHANGED <<loop_modes, volumes, paused_chats, calls, transport_log, start>>
    /\ UNCHANGED access

\* play_next returns to /play, which answers "Now Playing" whatever it returned.
PlayStreamChanged ==
    /\ tasks["play"].at = "change_stream"
    /\ \E ok \in BOOLEAN :
        /\ Complete("play", ok)
        /\ IF TransportOk(State, "change_stream", tasks["play"].chat, ok)
           THEN /\ Issue("play", "play", tasks["play"].chat, "change_volume_call",
                         Get(volumes, tasks["play"].chat, DEFAULT_VOLUME))
                /\ last' = last
           ELSE Finish("play") /\ Answer("now_playing", last.arg)
    /\ UNCHANGED <<queues, current_tracks, loop_modes, volumes, paused_chats, start>>
    /\ UNCHANGED access

PlayVolumeChanged ==
    /\ tasks["play"].at = "change_volume_call"
    /\ \E ok \in BOOLEAN : Complete("play", ok)
    /\ Finish("play")
    /\ Answer("now_playing", last.arg)
    /\ UNCHANGED <<queues, current_tracks, loop_modes, volumes, paused_chats, start>>
    /\ UNCHANGED access

\* Before the two meet the chat is brought into a playing state.
Quiet == \A t \in Coroutines : tasks[t].at = "idle"

TeardownNext ==
    \/ \E c \in Chats : Quiet /\ Prepare(c)
    \/ \E c \in Chats : PlayBegin(c)
    \/ PlayJoined
    \/ PlayDownloaded
    \/ PlayStreamChanged
    \/ PlayVolumeChanged
    \/ \E c \in Chats : StreamEndBegin(c)
    \/ StreamChanged("stream_end")
    \/ VolumeChanged("stream_end")
    \/ Left("stream_end")

TeardownSpec == Init /\ [][TeardownNext]_vars

\* ------------------------------------------------------ who may use the bot
\* rate_limit: the user's recorded request times younger than the window are
\* kept; with RATE_LIMIT_REQUESTS of them left the request is turned away and
\* nothing is recorded, otherwise its time is recorded and it goes on.
Recent(times, current_time) ==
    SelectSeq(times, LAMBDA x : current_time - x < RATE_LIMIT_WINDOW)

\* rate_limit that records the request it turns away.
rate_limit_records_rejected(storage, user_id, current_time) ==
    LET recent == Recent(Get(storage, user_id, <<>>), current_time) IN
    [storage |-> Put(storage, user_id, Append(recent, current_time)),
     admitted |-> Len(recent) < RATE_LIMIT_REQUESTS]

rate_limit(storage, user_id, current_time) ==
    LET recent == Recent(Get(storage, user_id, <<>>), current_time) IN
    IF Len(recent) >= RATE_LIMIT_REQUESTS
    THEN [storage |-> Put(storage, user_id, recent), admitted |-> FALSE]
    ELSE [storage |-> Put(storage, user_id, Append(recent, current_time)),
          admitted |-> TRUE]

\* The users table.  INSERT OR REPLACE deletes the row with the same user_id
\* and inserts the new one; the columns it does not name take their defaults.
Database_add_user(db, user_id) ==
    Put(db, user_id, [is_banned |-> FALSE, total_songs_played |-> 0])

Database_is_user_banned(db, user_id) == Has(db, user_id) /\ db[user_id].is_banned

\* UPDATE ... WHERE user_id = ? changes the row if there is one.
Database_ban_user(db, user_id) ==
    IF Has(db, user_id) THEN [db EXCEPT ![user_id].is_banned = TRUE] ELSE db

Database_unban_user(db, user_id) ==
    IF Has(db, user_id) THEN [db EXCEPT ![user_id].is_banned = FALSE] ELSE db

Database_add_song_to_history(db, user_id) ==
    IF Has(db, user_id) THEN [db EXCEPT ![user_id].total_songs_played = @ + 1] ELSE db

\* The is_user_banned decorator: a banned user is told so and the handler is
\* not run.
is_user_banned(db, user_id, s, r) ==
    IF Database_is_user_banned(db, user_id)
    THEN [s |-> s, reply |-> Reply("banned", 0)]
    ELSE r

\* A request of user u: the playback part of the step, and who asked.
By(u, r, op, c, arg) ==
    /\ Playback(r, op, c, arg)
    /\ requester' = u
    /\ UNCHANGED <<users, now>>

Unrated == UNCHANGED <<rate_limit_storage, admissions>>

\* A step that leaves playback alone.
Aside(u, op, arg, kind) ==
    /\ last' = [op |-> op, chat |-> None, arg |-> arg, reply |-> Reply(kind, 0)]
    /\ transport_log' = <<>>
    /\ requester' = u
    /\ UNCHANGED <<queues, current_tracks, loop_modes, volumes, paused_chats, calls,
                   tasks, issued, start>>

\* /play behind its two decorators, rate_limit outermost; r is what the
\* handler itself would do with the request.
Rated(u, c, media, r) ==
    LET limit == rate_limit(rate_limit_storage, u, now) IN
    /\ rate_limit_storage' = limit.storage
    /\ admissions' = IF limit.admitted
                     THEN [admissions EXCEPT ![u] = Append(@, now)]
                     ELSE admissions
    /\ By(u, IF limit.admitted
             THEN is_user_banned(users, u, State, r)
             ELSE [s |-> State, reply |-> Reply("rate_limited", 0)],
          "play", c, media)

\* Who may use the bot does not depend on what the transport answers: in this
\* part every request resolves and the transport answers every call.
Answers == {TRUE}

UserPlay(u, c) ==
    \E media \in Songs, byUrl, okJoin, okStream, okVol \in Answers :
        Rated(u, c, media,
              MusicHandler_play(State, c, media, byUrl, okJoin, okStream, okVol))

Tick ==
    /\ now < MaxTime
    /\ now' = now + 1
    /\ Aside(None, "tick", None, "none")
    /\ UNCHANGED <<users, rate_limit_storage, admissions>>

RateNext ==
    \/ Tick
    \/ \E u \in Users, c \in Chats : UserPlay(u, c)

RateSpec == Init /\ [][RateNext]_vars

\* The other commands carry is_user_banned alone.
UserPause(u, c) ==
    \E okPause \in Answers :
        /\ By(u, is_user_banned(users, u, State, MusicHandler_pause(State, c, okPause)),
              "pause", c, None)
        /\ Unrated

UserResume(u, c) ==
    \E okResume \in Answers :
        /\ By(u, is_user_banned(users, u, State, MusicHandler_resume(State, c, okResume)),
              "resume", c, None)
        /\ Unrated

UserSkip(u, c) ==
    \E okStream, okVol \in Answers :
        /\ By(u, is_user_banned(users, u, State,
                                MusicHandler_skip(State, c, okStream, okVol)),
              "skip", c, None)
        /\ Unrated

UserStop(u, c) ==
    \E okLeave \in Answers :
        /\ By(u, is_user_banned(users, u, State, MusicHandler_stop(State, c, okLeave)),
              "stop", c, None)
        /\ Unrated

UserShuffle(u, c) ==
    \E shuffled \in Shuffled(get_queue(State, c)) :
        /\ By(u, is_user_banned(users, u, State,
                                MusicHandler_shuffle_queue(State, c, shuffled)),
              "shuffle", c, None)
        /\ Unrated

UserLoop(u, c) ==
    \E arg \in LoopModes :
        /\ By(u, is_user_banned(users, u, State, MusicHandler_loop(State, c, arg)),
              "loop", c, None)
        /\ Unrated

UserVolume(u, c) ==
    \E level \in VolumeLevels, okVol \in Answers :
        /\ By(u, is_user_banned(users, u, State,
                                MusicHandler_volume(State, c, level, okVol)),
              "volume", c, level)
        /\ Unrated

\* handle_callback dispatches on the button's data; it looks at no ban.
Press(u, c) ==
    /\ Unrated
    /\ \/ \E ok \in Answers :
            By(u, CallbackHandler_handle_join_vc(State, c, ok), "join_vc", c, None)
       \/ \E ok \in Answers :
            By(u, CallbackHandler_handle_pause(State, c, ok), "pause_button", c, None)
       \/ \E ok \in Answers :
            By(u, CallbackHandler_handle_resume(State, c, ok), "resume_button", c, None)
       \/ \E okStream, okVol \in Answers :
            By(u, CallbackHandler_handle_skip(State, c, okStream, okVol),
               "skip_button", c, None)
       \/ \E ok \in Answers :
            By(u, CallbackHandler_handle_stop(State, c, ok), "stop_button", c, None)
       \/ \E shuffled \in Shuffled(get_queue(State, c)) :
            By(u, CallbackHandler_handle_shuffle(State, c, shuffled),
               "shuffle_button", c, None)
       \/ By(u, CallbackHandler_handle_clear_queue(State, c), "clear_queue", c, None)
       \/ By(u, CallbackHandler_handle_loop(State, c), "loop_button", c, None)

\* /start registers the sender.
UserStart(u) ==
    /\ users' = Database_add_user(users, u)
    /\ Aside(u, "start", None, "welcome")
    /\ UNCHANGED <<rate_limit_storage, now, admissions>>

\* /ban and /unban behind admin_only; an admin cannot be banned.
AdminBan(by, u) ==
    /\ users' = IF by \in SUDO_USERS /\ u \notin SUDO_USERS
                THEN Database_ban_user(users, u)
                ELSE users
    /\ Aside(by, "ban", u,
             IF by \notin SUDO_USERS THEN "access_denied"
             ELSE IF u \in SUDO_USERS THEN "cannot_ban_admin"
             ELSE "banned")
    /\ UNCHANGED <<rate_limit_storage, now, admissions>>

AdminUnban(by, u) ==
    /\ users' = IF by \in SUDO_USERS THEN Database_unban_user(users, u) ELSE users
    /\ Aside(by, "unban", u, IF by \in SUDO_USERS THEN "unbanned" ELSE "access_denied")
    /\ UNCHANGED <<rate_limit_storage, now, admissions>>

\* A song played for user u is entered in the history.
RecordSong(u) ==
    /\ Get(users, u, [total_songs_played |-> 0]).total_songs_played < MaxPlayed
    /\ users' = Database_add_song_to_history(users, u)
    /\ Aside(None, "add_song_to_history", u, "none")
    /\ UNCHANGED <<rate_limit_storage, now, admissions>>

\* The users table on its own: registration, bans and the song history.
DbNext ==
    \/ \E u \in Users : UserStart(u)
    \/ \E by, u \in Users : AdminBan(by, u)
    \/ \E by, u \in Users : AdminUnban(by, u)
    \/ \E u \in Users : RecordSong(u)

DbSpec == Init /\ [][DbNext]_vars

\* The bot as its users reach it: registration, bans, the guarded commands
\* and the inline buttons.
AccessNext ==
    \/ \E u \in Users : UserStart(u)
    \/ \E by, u \in Users : AdminBan(by, u)
    \/ \E by, u \in Users : AdminUnban(by, u)
    \/ \E u \in Users, c \in Chats :
        \/ UserPlay(u, c)
        \/ UserPause(u, c)
        \/ UserResume(u, c)
        \/ UserSkip(u, c)
        \/ UserStop(u, c)
        \/ UserShuffle(u, c)
        \/ UserLoop(u, c)
        \/ UserVolume(u, c)
        \/ Press(u, c)

AccessSpec == Init /\ [][AccessNext]_vars

\* ------------------------------------------------------------------ claims
\* In the action formulas below a step is recognised by last' (the handler
\* that took it); the unprimed variables are the state it started from.
CountCalls(log, m) == Cardinality({ i \in 1 .. Len(log) : log[i].m = m })
FailedCall(log, m) == \E i \in 1 .. Len(log) : log[i].m = m /\ ~log[i].ok
Occurrences(q, x) == Cardinality({ i \in 1 .. Len(q) : q[i] = x })

QueueBounded == \A c \in DOMAIN queues : Len(queues[c]) <= MAX_QUEUE_SIZE

FullEnqueueRejected ==
    (/\ last'.op = "add_to_queue"
     /\ Has(queues, last'.chat)
     /\ Len(queues[last'.chat]) >= MAX_QUEUE_SIZE)
    => (last'.reply.kind = "raised" /\ queues' = queues)

\* C1: in every reachable state every chat's queue holds at most
\* MAX_QUEUE_SIZE tracks, and add_to_queue on a full queue raises and leaves
\* the queue as it was (whatever sequence of enqueue, advance, skip, shuffle,
\* clear, stop and stream-end came before, stream-end under loop=queue included).
C1_QueueNeverExceedsMax == []QueueBounded /\ [][FullEnqueueRejected]_vars

C1_Witness ==
    /\ last.op = "add_to_queue"
    /\ last.reply.kind = "raised"
    /\ Len(queues[last.chat]) = MAX_QUEUE_SIZE

\* C2 (as claimed): a /play that enqueues a track B while the chat has a
\* current track A leaves current as it was, leaves the new track waiting in the queue
\* and issues no change_stream call.
C2_EnqueueLeavesCurrentPlaying ==
    [][ (/\ last'.op = "play"
         /\ last'.reply.kind \in {"now_playing", "added"}
         /\ get_current_track(State, last'.chat) # None
         /\ get_current_track(State, last'.chat) # last'.arg)
        => (/\ Get(current_tracks', last'.chat, None) = current_tracks[last'.chat]
            /\ Occurrences(Get(queues', last'.chat, <<>>), last'.arg) > 0
            /\ CountCalls(transport_log', "change_stream") = 0) ]_vars

\* C3: a /play that enqueues track A for a chat in a session with an empty
\* queue and no current track is answered "now playing" (position 1), makes A
\* current, leaves the queue empty and issues exactly one change_stream call,
\* carrying A.
C3_PlayOnIdleSessionStartsTrack ==
    [][ (/\ last'.op = "play"
         /\ last'.arg \in Songs
         /\ last'.chat \in calls
         /\ get_queue(State, last'.chat) = <<>>
         /\ get_current_track(State, last'.chat) = None)
        => (/\ last'.reply = Reply("now_playing", last'.arg)
            /\ Get(current_tracks', last'.chat, None) = last'.arg
            /\ Get(queues', last'.chat, <<>>) = <<>>
            /\ CountCalls(transport_log', "change_stream") = 1
            /\ transport_log'[1].m = "change_stream"
            /\ transport_log'[1].arg = last'.arg) ]_vars

C3_Witness ==
    /\ last.op = "play"
    /\ last.reply.kind = "now_playing"
    /\ CountCalls(transport_log, "join_group_call") = 0
    /\ Len(transport_log) = 2
    /\ transport_log[1] = [m |-> "change_stream", chat |-> last.chat,
                           arg |-> last.arg, ok |-> TRUE]
    /\ current_tracks[last.chat] = last.arg
    /\ queues[last.chat] = <<>>

\* C4 (as claimed): /skip on a chat with current track T and loop=song always
\* moves forward: afterwards T is no longer the current track (T not being
\* queued again), for every queue content, the empty queue included.
C4_SkipNeverKeepsSkippedTrack ==
    [][ (/\ last'.op = "skip"
         /\ get_loop_mode(State, last'.chat) = "song"
         /\ get_current_track(State, last'.chat) # None
         /\ Occurrences(get_queue(State, last'.chat),
                        get_current_track(State, last'.chat)) = 0)
        => Get(current_tracks', last'.chat, None) # current_tracks[last'.chat] ]_vars

\* A stream-end step that takes the loop=queue branch of _on_stream_end.
QueueLoopStreamEnd ==
    /\ last'.op = "stream_end"
    /\ get_loop_mode(State, last'.chat) = "queue"
    /\ get_current_track(State, last'.chat) # None
    /\ Has(queues, last'.chat)

\* C5 (as claimed): stream-end under loop=queue with current T and queue
\* [H, ...rest] gives queue [...rest, T], T at the tail exactly once more, and
\* current H; claimed for every queue, the empty one included (rest empty).
C5_QueueLoopRotatesAnyQueue ==
    [][ (QueueLoopStreamEnd /\ last'.chat \in calls)
        => LET c == last'.chat
               q == queues[c]
               T == current_tracks[c]
               rest == IF q = <<>> THEN <<>> ELSE Tail(q)
           IN  /\ queues'[c] = Append(rest, T)
               /\ q # <<>> => current_tracks'[c] = Head(q) ]_vars

\* C5 (amended): with a non-empty queue [H, ...rest] the result is current = H
\* and queue = [...rest, T]; with an empty queue T is popped straight back:
\* current stays T and the queue stays empty.
C5_QueueLoopRotates ==
    [][ QueueLoopStreamEnd
        => LET c == last'.chat
               q == queues[c]
               T == current_tracks[c]
           IN  IF q = <<>>
               THEN current_tracks'[c] = T /\ queues'[c] = <<>>
               ELSE current_tracks'[c] = Head(q) /\ queues'[c] = Append(Tail(q), T) ]_vars

C5_Witness ==
    /\ last.op = "stream_end"
    /\ get_loop_mode(State, last.chat) = "queue"
    /\ get_current_track(State, last.chat) # None
    /\ Len(get_queue(State, last.chat)) >= 2
    /\ CountCalls(transport_log, "change_stream") = 1

\* C6: a stream-end on a chat with loop=song and current track T leaves
\* current = T and the queue (and every other field) unchanged and issues
\* exactly one transport call, change_stream with T: so n consecutive
\* stream-ends issue n change_stream calls for T and never a leave.
C6_SongLoopReplaysCurrent ==
    [][ (/\ last'.op = "stream_end"
         /\ get_loop_mode(State, last'.chat) = "song"
         /\ get_current_track(State, last'.chat) # None)
        => (/\ current_tracks' = current_tracks
            /\ queues' = queues
            /\ loop_modes' = loop_modes
            /\ paused_chats' = paused_chats
            /\ Len(transport_log') = 1
            /\ transport_log'[1].m = "change_stream"
            /\ transport_log'[1].chat = last'.chat
            /\ transport_log'[1].arg = current_tracks[last'.chat]) ]_vars

C6_Witness ==
    /\ last.op = "stream_end"
    /\ get_loop_mode(State, last.chat) = "song"
    /\ get_current_track(State, last.chat) # None
    /\ transport_log = <<[m |-> "change_stream", chat |-> last.chat,
                          arg |-> current_tracks[last.chat], ok |-> TRUE]>>

\* C7 (as claimed): a stream-end with loop=off on a chat in a session whose
\* queue is non-empty makes the head current and keeps the session and the
\* rest of the queue: no leave is issued and the record is not removed, also
\* when the change_stream call fails.
C7_StreamEndKeepsSessionWhileQueued ==
    [][ (/\ last'.op = "stream_end"
         /\ get_loop_mode(State, last'.chat) = "off"
         /\ last'.chat \in calls
         /\ get_queue(State, last'.chat) # <<>>)
        => (/\ Has(queues', last'.chat)
            /\ queues'[last'.chat] = Tail(queues[last'.chat])
            /\ Get(current_tracks', last'.chat, None) = Head(queues[last'.chat])
            /\ CountCalls(transport_log', "leave_group_call") = 0
            /\ last'.chat \in calls') ]_vars

\* C8 (as claimed): when change_stream or the following change_volume_call
\* fails during an advance of a chat in a session (play_next called directly,
\* by skip, or by stream-end with loop=off), the queue and the current track
\* are what they were before the advance.
C8_FailedAdvanceLeavesStateUnchanged ==
    [][ (/\ last'.op \in {"play_next", "skip", "stream_end"}
         /\ last'.op = "stream_end" => get_loop_mode(State, last'.chat) = "off"
         /\ last'.chat \in calls
         /\ get_queue(State, last'.chat) # <<>>
         /\ \/ FailedCall(transport_log', "change_stream")
            \/ FailedCall(transport_log', "change_volume_call"))
        => (queues' = queues /\ current_tracks' = current_tracks) ]_vars

\* C9 (as claimed): a join that fails is reported to the caller and leaves the
\* chat's in-memory state as it was: no record is created.
C9_FailedJoinCreatesNoState ==
    [][ (/\ last'.op \in {"play", "join_vc"}
         /\ last'.reply.kind = "join_failed")
        => (/\ queues' = queues
            /\ current_tracks' = current_tracks
            /\ loop_modes' = loop_modes
            /\ volumes' = volumes
            /\ paused_chats' = paused_chats) ]_vars

\* C10 (as claimed): after /stop on a chat that had a current track (playing
\* or paused, the session possibly ended from outside, the leave possibly
\* failing) the queue is empty, there is no current track, the chat is not
\* paused and a leave request was issued.
C10_StopClearsPlayback ==
    [][ (/\ last'.op = "stop"
         /\ get_current_track(State, last'.chat) # None)
        => (/\ Get(queues', last'.chat, <<>>) = <<>>
            /\ Get(current_tracks', last'.chat, None) = None
            /\ last'.chat \notin paused_chats'
            /\ CountCalls(transport_log', "leave_group_call") = 1) ]_vars
\* C11 (as claimed): in every reachable state a chat has a current track only
\* while the bot is in a voice session for it; once the session has ended
\* (stop, exhaustion with loop=off, the voice chat closed from outside and
\* handled by voice_chat_ended) current is None.
C11_CurrentOnlyInSession ==
    \A c \in Chats : get_current_track(State, c) # None => c \in calls
\* The chat's queue and current track are the same before and after the step.
TracksUnchanged == queues' = queues /\ current_tracks' = current_tracks

\* pause then resume, both transport calls succeeding, applied to a state.
PauseResume(s, c) == resume(pause(s, c, TRUE).s, c, TRUE)

PauseResumeRestores ==
    \A c \in Chats :
        (c \in calls /\ c \notin paused_chats /\ get_current_track(State, c) # None)
        => (/\ pause(State, c, TRUE).ret
            /\ c \in pause(State, c, TRUE).s.paused_chats
            /\ PauseResume(State, c).ret
            /\ PauseResume(State, c).s.paused_chats = paused_chats
            /\ PauseResume(State, c).s.queues = queues
            /\ PauseResume(State, c).s.current_tracks = current_tracks)

PauseResumeSteps ==
    /\ (last'.op = "pause" /\ last'.reply.kind = "paused")
        => (paused_chats' = paused_chats \cup {last'.chat} /\ TracksUnchanged)
    /\ (last'.op = "resume" /\ last'.reply.kind = "resumed")
        => (paused_chats' = paused_chats \ {last'.chat} /\ TracksUnchanged)
    /\ (last'.op = "pause" /\ FailedCall(transport_log', "pause_stream"))
        => (paused_chats' = paused_chats /\ last'.reply.kind = "nothing_playing")
    /\ (last'.op = "resume" /\ FailedCall(transport_log', "resume_stream"))
        => (paused_chats' = paused_chats /\ last'.reply.kind = "nothing_paused")

\* C14: on a playing chat pause followed by resume (both transport calls
\* succeeding) ends with the chat not paused and current and queue unchanged;
\* a pause or resume whose transport call fails leaves the paused flag as it was.
C14_PauseResumeRoundTrip == []PauseResumeRestores /\ [][PauseResumeSteps]_vars

C14_Witness ==
    /\ last.op = "resume"
    /\ last.reply.kind = "resumed"
    /\ last.chat \in calls
    /\ last.chat \notin paused_chats
    /\ get_current_track(State, last.chat) # None

\* C15 (as claimed): /pause on a chat that is already paused or has no current
\* track (idle, or joined with nothing playing) returns False, issues no
\* pause_stream call and changes no state.
C15_PauseOnlyWhenPlaying ==
    [][ (/\ last'.op = "pause"
         /\ \/ last'.chat \in paused_chats
            \/ get_current_track(State, last'.chat) = None)
        => (/\ last'.reply.kind = "nothing_playing"
            /\ CountCalls(transport_log', "pause_stream") = 0
            /\ paused_chats' = paused_chats
            /\ TracksUnchanged) ]_vars

\* C16: /resume on a chat that is not marked paused returns False, issues no
\* transport call and changes no state; on a paused chat whose resume_stream
\* call succeeds it returns True and clears the paused mark.
C16_ResumeOnlyWhenPaused ==
    [][ last'.op = "resume"
        => IF last'.chat \notin paused_chats
           THEN /\ last'.reply.kind = "nothing_paused"
                /\ transport_log' = <<>>
                /\ paused_chats' = paused_chats
                /\ TracksUnchanged
                /\ loop_modes' = loop_modes
                /\ volumes' = volumes
                /\ calls' = calls
           ELSE /\ Len(transport_log') = 1
                /\ transport_log'[1].m = "resume_stream"
                /\ transport_log'[1].ok
                    => (last'.reply.kind = "resumed" /\ last'.chat \notin paused_chats') ]_vars

C16_Witness ==
    /\ last.op = "resume"
    /\ last.reply.kind = "nothing_paused"
    /\ transport_log = <<>>
    /\ last.chat \in calls
    /\ last.chat \notin paused_chats
    /\ get_current_track(State, last.chat) # None

\* C17: a /volume request whose level is outside 1..200 or no integer is
\* rejected with a message, leaves the stored volume unchanged and issues no
\* transport call; a level inside the range is stored, and a
\* change_volume_call carrying it is issued exactly when a session is active.
C17_VolumeRangeChecked ==
    [][ last'.op = "volume"
        => IF last'.arg \notin 1 .. 200
           THEN /\ last'.reply.kind = "invalid_volume"
                /\ volumes' = volumes
                /\ transport_log' = <<>>
           ELSE /\ last'.reply = Reply("volume_set", last'.arg)
                /\ volumes' = Put(volumes, last'.chat, last'.arg)
                /\ IF last'.chat \in calls
                   THEN /\ Len(transport_log') = 1
                        /\ transport_log'[1].m = "change_volume_call"
                        /\ transport_log'[1].arg = last'.arg
                   ELSE transport_log' = <<>> ]_vars

C17_Witness ==
    /\ last.op = "volume"
    /\ last.arg = 250
    /\ last.reply.kind = "invalid_volume"
    /\ last.chat \in calls
    /\ Has(volumes, last.chat)
    /\ volumes[last.chat] = 1

\* C18: in every reachable state every stored volume is in 1..200 and every
\* stored loop mode is off, song or queue.
C18_VolumeAndLoopModeValid ==
    /\ \A c \in DOMAIN volumes : volumes[c] \in 1 .. 200
    /\ \A c \in DOMAIN loop_modes : loop_modes[c] \in {"off", "song", "queue"}

C18_Witness ==
    /\ last.op \in {"loop", "loop_button"}
    /\ get_loop_mode(State, last.chat) = "queue"
    /\ get_volume(State, last.chat) = 200

\* C19: shuffle on an empty or missing queue returns False and alters no
\* state; on a non-empty queue it returns True and the queue afterwards holds
\* the same tracks the same number of times, with current track, loop mode,
\* volume and paused flag unchanged.
C19_ShufflePreservesTracks ==
    [][ last'.op = "shuffle"
        => LET c == last'.chat IN
           /\ current_tracks' = current_tracks
           /\ loop_modes' = loop_modes
           /\ volumes' = volumes
           /\ paused_chats' = paused_chats
           /\ transport_log' = <<>>
           /\ IF get_queue(State, c) = <<>>
              THEN last'.reply.kind = "false" /\ queues' = queues
              ELSE /\ last'.reply.kind = "true"
                   /\ DOMAIN queues' = DOMAIN queues
                   /\ Len(queues'[c]) = Len(queues[c])
                   /\ \A x \in Songs :
                        Occurrences(queues'[c], x) = Occurrences(queues[c], x) ]_vars

C19_Witness ==
    /\ last.op = "shuffle"
    /\ last.reply.kind = "true"
    /\ Len(get_queue(State, last.chat)) = 2
    /\ queues[last.chat][1] # queues[last.chat][2]

\* A step of play_next that has a track to advance to.
Advances ==
    /\ last'.op = "play_next"
    /\ get_queue(State, last'.chat) # <<>>

\* C20 (as claimed): one advance issues exactly one change_stream and no other
\* transport call, one pause exactly one pause_stream, one resume exactly one
\* resume_stream, one stop exactly one leave.
C20_OneCallPerTransition ==
    [][ /\ Advances
            => (Len(transport_log') = 1 /\ transport_log'[1].m = "change_stream")
        /\ (last'.op = "pause" /\ last'.reply.kind = "true")
            => (Len(transport_log') = 1 /\ transport_log'[1].m = "pause_stream")
        /\ (last'.op = "resume" /\ last'.reply.kind = "true")
            => (Len(transport_log') = 1 /\ transport_log'[1].m = "resume_stream")
        /\ (last'.op = "stop" /\ last'.chat \in calls)
            => (Len(transport_log') = 1 /\ transport_log'[1].m = "leave_group_call") ]_vars

\* C20 (amended): one advance issues exactly one change_stream and, only when
\* that call succeeded, one change_volume_call after it; a pause or resume
\* that succeeds issues exactly one pause_stream or resume_stream; a stop
\* issues exactly one leave when the transport reports a session for the chat
\* and no call at all otherwise.
C20_CallsPerTransition ==
    [][ /\ Advances
            => (/\ transport_log'[1].m = "change_stream"
                /\ transport_log'[1].arg = Head(queues[last'.chat])
                /\ IF transport_log'[1].ok
                   THEN /\ Len(transport_log') = 2
                        /\ transport_log'[2].m = "change_volume_call"
                   ELSE Len(transport_log') = 1)
        /\ (last'.op = "pause" /\ last'.reply.kind = "true")
            => (Len(transport_log') = 1 /\ transport_log'[1].m = "pause_stream")
        /\ (last'.op = "resume" /\ last'.reply.kind = "true")
            => (Len(transport_log') = 1 /\ transport_log'[1].m = "resume_stream")
        /\ last'.op = "stop"
            => IF last'.chat \in calls
               THEN Len(transport_log') = 1 /\ transport_log'[1].m = "leave_group_call"
               ELSE transport_log' = <<>> ]_vars

C20_Witness ==
    /\ last.op = "play_next"
    /\ last.reply.kind = "true"
    /\ Len(transport_log) = 2
    /\ transport_log[1].m = "change_stream"
    /\ transport_log[1].ok
    /\ transport_log[2].m = "change_volume_call"
\* What the claim compares: the chat records and the transport calls in order.
Outcome(s, calls_made) ==
    [queues |-> s.queues, current_tracks |-> s.current_tracks,
     calls |-> [i \in 1 .. Len(calls_made) |->
                  [m |-> calls_made[i].m, arg |-> calls_made[i].arg]]]

SkipThenStreamEnd(s, c) ==
    { on_stream_end(skip(s, c, o[1], o[2]).s, c, o[3], o[4], o[5]).s :
        o \in [1 .. 5 -> BOOLEAN] }

StreamEndThenSkip(s, c) ==
    { skip(on_stream_end(s, c, o[1], o[2], o[3]).s, c, o[4], o[5]).s :
        o \in [1 .. 5 -> BOOLEAN] }

SerialOutcomes(s, c) ==
    { Outcome(r, r.log) : r \in SkipThenStreamEnd(s, c) \cup StreamEndThenSkip(s, c) }

RaceOver == \A t \in Tasks : tasks[t].at = "done"

\* C12 (as claimed): when a skip command and a stream-end notification on a
\* playing chat have both run to their end, however their steps interleaved,
\* the chat's queue and current track and the sequence of transport calls
\* issued are those of running the two one after the other in one of the two
\* orders.
C12_RaceEqualsSerialOrder ==
    \A c \in Chats :
        (RaceOver /\ c \in start.calls /\ get_current_track(start, c) # None)
        => Outcome(State, issued) \in SerialOutcomes(start, c)

\* C13 (as claimed): at no time are two transport calls in flight for the
\* same chat, here a chat that was playing in a session when the skip command
\* and the stream-end notification began.
C13_OneCallInFlight ==
    \A t1, t2 \in Tasks :
        (/\ InFlight(t1) /\ InFlight(t2)
         /\ tasks[t1].chat = tasks[t2].chat
         /\ tasks[t1].chat \in start.calls
         /\ get_current_track(start, tasks[t1].chat) # None)
        => t1 = t2
\* Every track held for a chat, queued or current.
TracksOf(s, c) ==
    {Get(s.queues, c, <<>>)[i] : i \in 1 .. Len(Get(s.queues, c, <<>>))}
        \cup ({Get(s.current_tracks, c, None)} \ {None})

DurationsBounded ==
    \A c \in Chats : \A track \in TracksOf(State, c) :
        duration_seconds(track) <= MAX_SONG_DURATION

\* C25 (as claimed): every track in a queue or current slot is at most
\* MAX_SONG_DURATION seconds long, and a /play request for a longer item, once
\* it has been resolved, fails without touching any playback state.
C25_TooLongTouchesNothing ==
    /\ []DurationsBounded
    /\ [][ (/\ last'.op = "play"
            /\ duration_seconds(last'.arg) > MAX_SONG_DURATION
            /\ last'.reply.kind # "join_failed")
           => (/\ last'.reply.kind \in {"error", "no_results"}
               /\ queues' = queues
               /\ current_tracks' = current_tracks
               /\ loop_modes' = loop_modes
               /\ volumes' = volumes
               /\ paused_chats' = paused_chats
               /\ calls' = calls) ]_vars
\* A dictionary entry, or the fact that there is none.
Entry(d, k) == IF Has(d, k) THEN <<d[k]>> ELSE <<>>

\* Everything the manager holds for one chat.
ChatRecord(s, c) ==
    [queue |-> Entry(s.queues, c), current |-> Entry(s.current_tracks, c),
     loop_mode |-> Entry(s.loop_modes, c), volume |-> Entry(s.volumes, c),
     paused |-> c \in s.paused_chats]

OwnTracksOnly ==
    \A c \in IsoChats : TracksOf(State, c) \subseteq {RequestedIn(c)}

\* C21: an operation or stream-end notification addressed to one chat leaves
\* the queue, current track, loop mode, volume and paused flag of every other
\* chat unchanged, and a chat's record never holds a track requested in
\* another chat.
C21_ChatsIsolated ==
    /\ []OwnTracksOnly
    /\ [][ \A b \in IsoChats \ {last'.chat} :
             ChatRecord(State, b)' = ChatRecord(State, b) ]_vars

C21_Witness ==
    /\ last.chat = 1
    /\ ChatRecord(State, 1) =
         [queue |-> <<>>, current |-> <<>>, loop_mode |-> <<>>, volume |-> <<>>,
          paused |-> FALSE]
    /\ 1 \notin calls
    /\ ChatRecord(State, 2) =
         [queue |-> << <<2>> >>, current |-> <<2>>, loop_mode |-> <<"queue">>,
          volume |-> <<2 * DEFAULT_VOLUME>>, paused |-> TRUE]
\* The record join_voice_chat creates for a chat it does not know.
Defaults ==
    [queue |-> << <<>> >>, current |-> <<None>>, loop_mode |-> <<"off">>,
     volume |-> <<DEFAULT_VOLUME>>, paused |-> FALSE]

\* C22 (as claimed): a successful join of a chat that has no session leaves
\* the chat with the default record (empty queue, no current track, loop off,
\* default volume, not paused), whatever was played or set before the session
\* ended or between the sessions.
C22_JoinStartsFromDefaults ==
    [][ \A c \in Chats :
          (/\ last'.op = "join_vc"
           /\ last'.chat = c
           /\ last'.reply.kind = "joined"
           /\ c \notin calls)
          => ChatRecord(State, c)' = Defaults ]_vars
IdleChat(c) ==
    /\ get_queue(State, c) = <<>>
    /\ get_current_track(State, c) = None
    /\ c \notin calls

\* C23 (as claimed): with loop mode off, nothing enqueued any more and a
\* notification delivered for every stream the transport plays, a chat whose
\* queue is being drained eventually becomes idle: queue empty, no current
\* track, session left.
C23_DrainedChatBecomesIdle ==
    \A c \in Chats : (Draining /\ last.chat = c) ~> IdleChat(c)
\* The oldest queued track has become current and has left the queue.
TookHead(c) ==
    /\ Has(current_tracks', c)
    /\ current_tracks'[c] = Head(queues[c])
    /\ Has(queues', c)
    /\ queues'[c] = Tail(queues[c])

\* The chat's record is gone (the session was left).
RecordDropped(c) == ~Has(queues', c) /\ ~Has(current_tracks', c)

QueueOrderSteps ==
    LET c == last'.chat
        q == get_queue(State, c)
        off == get_loop_mode(State, c) = "off"
    IN  /\ (last'.op = "add_to_queue" /\ last'.reply.kind = "position")
            => (/\ queues'[c] = Append(q, last'.arg)
                /\ last'.reply.n = Len(queues'[c]))
        /\ (last'.op = "play_next" /\ q # <<>>) => TookHead(c)
        /\ (last'.op = "skip" /\ q # <<>> /\ Has(current_tracks, c)) => TookHead(c)
        /\ (last'.op = "stream_end" /\ q # <<>> /\ off)
            => (TookHead(c) \/ RecordDropped(c))
        /\ (off /\ last'.op # "shuffle" /\ Has(queues', c))
            => \/ queues'[c] = q
               \/ queues'[c] = <<>>
               \/ q # <<>> /\ queues'[c] = Tail(q)
               \/ \E track \in Songs : queues'[c] = Append(q, track)

\* C24: add_to_queue appends at the tail and returns the length after the
\* insert; with loop off and no shuffle every advance makes the head of the
\* queue current and no step reorders the tracks that stay queued, so tracks
\* become current in the order in which they were accepted.
C24_QueueOrderIsPlayOrder == [][QueueOrderSteps]_vars

C24_Witness ==
    /\ last.op = "play_next"
    /\ last.reply.kind = "true"
    /\ get_loop_mode(State, last.chat) = "off"
    /\ get_current_track(State, last.chat) = 1
    /\ get_queue(State, last.chat) = <<2>>
\* C26 (as claimed): /skip replies "Skipped" only when the manager's skip
\* replaced the current track: the queue had a track to advance to, it became
\* current, and the change_stream call did not fail.
C26_SkippedOnlyWhenAdvanced ==
    [][ (last'.op = "skip" /\ last'.reply.kind = "skipped")
        => (/\ get_queue(State, last'.chat) # <<>>
            /\ TookHead(last'.chat)
            /\ ~FailedCall(transport_log', "change_stream")) ]_vars

ClearIdempotent ==
    \A c \in Chats :
        clear_queue(clear_queue(State, c), c) = clear_queue(State, c)

ClearSteps ==
    last'.op = "clear_queue"
    => (/\ DOMAIN queues' = DOMAIN queues
        /\ Get(queues', last'.chat, <<>>) = <<>>
        /\ current_tracks' = current_tracks
        /\ loop_modes' = loop_modes
        /\ volumes' = volumes
        /\ paused_chats' = paused_chats
        /\ calls' = calls
        /\ transport_log' = <<>>)

\* C27: clear empties the chat's queue, a second clear changes nothing more,
\* a chat without a record gets none, and current track, loop mode, volume
\* and paused flag stay as they were.
C27_ClearEmptiesQueueOnly == []ClearIdempotent /\ [][ClearSteps]_vars

C27_Witness ==
    /\ last.op = "clear_queue"
    /\ Has(queues, last.chat)
    /\ queues[last.chat] = <<>>
    /\ get_current_track(State, last.chat) # None
    /\ get_loop_mode(State, last.chat) = "queue"
    /\ last.chat \in paused_chats

\* C28: set_loop_mode changes only the chat's loop mode and issues no
\* transport call; set_volume changes only the chat's stored volume.
C28_LoopAndVolumeArePureUpdates ==
    [][ /\ last'.op = "set_loop_mode"
            => (/\ Has(loop_modes', last'.chat)
                /\ loop_modes'[last'.chat] \in LoopModes
                /\ \A c \in DOMAIN loop_modes \ {last'.chat} :
                      Has(loop_modes', c) /\ loop_modes'[c] = loop_modes[c]
                /\ queues' = queues
                /\ current_tracks' = current_tracks
                /\ volumes' = volumes
                /\ paused_chats' = paused_chats
                /\ calls' = calls
                /\ transport_log' = <<>>)
        /\ last'.op = "set_volume"
            => (/\ volumes' = Put(volumes, last'.chat, last'.arg)
                /\ queues' = queues
                /\ current_tracks' = current_tracks
                /\ loop_modes' = loop_modes
                /\ paused_chats' = paused_chats
                /\ calls' = calls) ]_vars

C28_Witness ==
    /\ last.op = "set_loop_mode"
    /\ get_loop_mode(State, last.chat) = "song"
    /\ get_queue(State, last.chat) # <<>>
    /\ get_current_track(State, last.chat) # None
    /\ get_volume(State, last.chat) = 200
    /\ last.chat \in paused_chats

\* n stream-end notifications in a row, every transport call succeeding.
RECURSIVE StreamEnds(_, _, _)
StreamEnds(s, c, n) ==
    IF n = 0 THEN s
    ELSE StreamEnds(on_stream_end(s, c, TRUE, TRUE, TRUE).s, c, n - 1)

\* How often a track is held for the chat, as current or queued.
Held(s, c, track) ==
    Occurrences(get_queue(s, c), track)
        + (IF get_current_track(s, c) = track THEN 1 ELSE 0)

QueueLooping(c) ==
    /\ c \in calls
    /\ get_loop_mode(State, c) = "queue"
    /\ get_current_track(State, c) # None

QueueLoopCycles ==
    \A c \in Chats :
        QueueLooping(c)
        => /\ \A track \in Songs :
                Held(StreamEnds(State, c, 1), c, track) = Held(State, c, track)
           /\ LET back == StreamEnds(State, c, Len(get_queue(State, c)) + 1) IN
              /\ get_current_track(back, c) = get_current_track(State, c)
              /\ get_queue(back, c) = get_queue(State, c)
              /\ Has(back.queues, c)

\* C29: with loop mode queue and every transport call succeeding, a
\* stream-end keeps the tracks held for the chat (current plus queued) the
\* same, each as often as before, and after k+1 stream-ends in a row, k the
\* queue length, current track and queue order are what they were.
C29_QueueLoopConservesTracks ==
    /\ []QueueLoopCycles
    /\ [][ \A c \in Chats :
              (/\ last'.op = "stream_end"
               /\ last'.chat = c
               /\ QueueLooping(c)
               /\ \A i \in 1 .. Len(transport_log') : transport_log'[i].ok)
              => \A track \in Songs :
                    Held(State, c, track)' = Held(State, c, track) ]_vars

C29_Witness ==
    /\ last.op = "stream_end"
    /\ QueueLooping(last.chat)
    /\ Len(transport_log) = 2
    /\ \A i \in 1 .. Len(transport_log) : transport_log[i].ok
    /\ get_current_track(State, last.chat) = 1
    /\ get_queue(State, last.chat) = <<2, 1>>

CurrentHasQueue ==
    \A c \in Chats : get_current_track(State, c) # None => Has(queues, c)

\* C30: in every reachable state a chat with a current track also has an
\* entry in the queue map, and so the loop=queue branch of the stream-end
\* handler never fails on a missing queue.
C30_CurrentImpliesQueueEntry ==
    /\ []CurrentHasQueue
    /\ [][ last'.op = "stream_end" => last'.reply.kind # "raised" ]_vars

C30_Witness ==
    /\ last.op = "stream_end"
    /\ last.reply.kind = "none"
    /\ get_loop_mode(State, last.chat) = "queue"
    /\ get_current_track(State, last.chat) # None
    /\ get_queue(State, last.chat) # <<>>
\* C32 (as claimed): a chat is marked paused only while it has a current
\* track, and a step that replaces the current track and gets the new track
\* sent to the transport leaves the chat not marked paused.
C32_PausedOnlyWithCurrentTrack ==
    [][ \A c \in Chats :
          /\ c \in paused_chats' => Get(current_tracks', c, None) # None
          /\ (/\ last'.chat = c
              /\ get_queue(State, c) # <<>>
              /\ TookHead(c)
              /\ \E i \in 1 .. Len(transport_log') :
                    transport_log'[i].m = "change_stream" /\ transport_log'[i].ok)
             => c \notin paused_chats' ]_vars

\* The mode after the one given, in the order of the loop button.
NextLoopMode(mode) ==
    IF mode = "off" THEN "song" ELSE IF mode = "song" THEN "queue" ELSE "off"

ThreePresses(s, c) ==
    CallbackHandler_handle_loop(
        CallbackHandler_handle_loop(CallbackHandler_handle_loop(s, c).s, c).s, c).s

ThreePressesRestore ==
    \A c \in Chats :
        /\ get_loop_mode(ThreePresses(State, c), c) = get_loop_mode(State, c)
        /\ get_loop_mode(CallbackHandler_handle_loop(State, c).s, c) \in LoopModes

\* C36: a press of the loop button moves the chat's loop mode one step along
\* off -> song -> queue -> off and changes nothing else; three presses in a
\* row restore the mode, and the result is always one of the three modes.
C36_LoopButtonCycles ==
    /\ []ThreePressesRestore
    /\ [][ last'.op = "loop_button"
           => (/\ Has(loop_modes', last'.chat)
               /\ loop_modes'[last'.chat] = NextLoopMode(get_loop_mode(State, last'.chat))
               /\ queues' = queues
               /\ current_tracks' = current_tracks
               /\ volumes' = volumes
               /\ paused_chats' = paused_chats
               /\ calls' = calls
               /\ transport_log' = <<>>) ]_vars

C36_Witness ==
    /\ last.op = "loop_button"
    /\ get_loop_mode(State, last.chat) = "off"
    /\ Has(loop_modes, last.chat)
    /\ get_current_track(State, last.chat) # None
    /\ last.chat \in paused_chats

\* The manager holds no queue, no current track and no paused mark for c.
NoPlaybackState(c) ==
    /\ ~Has(queues, c)
    /\ ~Has(current_tracks, c)
    /\ c \notin paused_chats

\* C37: a stream-end notification, skip, pause, resume, shuffle or clear for
\* a chat the manager holds no playback state for raises nothing and creates
\* none: afterwards there is still no queue entry, no current track and no
\* paused mark, also when the transport's leave call fails.
C37_NoStateNoEffect ==
    [][ \A c \in Chats :
          (/\ last'.chat = c
           /\ last'.op \in {"stream_end", "skip", "pause", "resume", "shuffle",
                            "clear_queue"}
           /\ NoPlaybackState(c))
          => (/\ NoPlaybackState(c)'
              /\ last'.reply.kind \in {"none", "false"}) ]_vars

C37_Witness ==
    /\ last.op = "stream_end"
    /\ NoPlaybackState(last.chat)
    /\ FailedCall(transport_log, "leave_group_call")
    /\ Has(loop_modes, last.chat)

\* The requests of user u that rate_limit let through at a time x with
\* lo <= x < hi.
Admitted(u, lo, hi) ==
    Cardinality({i \in 1 .. Len(admissions[u]) :
                    lo <= admissions[u][i] /\ admissions[u][i] < hi})

WindowBound ==
    \A u \in Users, t \in 0 .. now :
        Admitted(u, t, t + RATE_LIMIT_WINDOW) <= RATE_LIMIT_REQUESTS

\* C35: rate limiting of /play is a sliding window per user.  In every window
\* of RATE_LIMIT_WINDOW seconds (from a time t up to, not including,
\* t + RATE_LIMIT_WINDOW) at most RATE_LIMIT_REQUESTS play requests of a user
\* are let through; a request is let through exactly when fewer than
\* RATE_LIMIT_REQUESTS of the user's own admitted requests are younger than the
\* window; a request turned away is recorded nowhere; and a request of one
\* user leaves the other users' records as they were.
C35_SlidingWindowPerUser ==
    /\ []WindowBound
    /\ [][ \A u \in Users :
             (last'.op = "play" /\ requester' = u) =>
                 /\ (last'.reply.kind # "rate_limited")
                        <=> (Admitted(u, now - RATE_LIMIT_WINDOW + 1, now + 1)
                                < RATE_LIMIT_REQUESTS)
                 /\ last'.reply.kind = "rate_limited" =>
                        /\ admissions' = admissions
                        /\ Len(Get(rate_limit_storage', u, <<>>))
                              <= Len(Get(rate_limit_storage, u, <<>>))
                 /\ \A v \in Users \ {u} :
                        /\ Has(rate_limit_storage', v) = Has(rate_limit_storage, v)
                        /\ Get(rate_limit_storage', v, <<>>)
                              = Get(rate_limit_storage, v, <<>>)
                        /\ admissions'[v] = admissions[v] ]_vars

\* A user is turned away while the other user has been let through in the
\* same window, after an earlier window of the same user has passed.
C35_Witness ==
    /\ last.op = "play"
    /\ last.reply.kind = "rate_limited"
    /\ \E u \in Users :
        /\ requester = u
        /\ Len(admissions[u]) > RATE_LIMIT_REQUESTS
        /\ \E v \in Users \ {u} : Admitted(v, now - RATE_LIMIT_WINDOW + 1, now + 1) > 0

\* C33: a ban is persistent.  Once a known user is banned, is_user_banned
\* answers true for that user after every later operation (the user's /start,
\* a song entered in the history, any command or button) until /unban is
\* given for that user.
C33_BanPersistsUntilUnban ==
    [][ \A u \in Users :
          (Database_is_user_banned(users, u) /\ ~(last'.op = "unban" /\ last'.arg = u))
              => Database_is_user_banned(users', u) ]_vars

\* C34: while a user is banned, no request of that user changes a chat's
\* playback state (queue, current track, paused flag, loop mode, volume),
\* whether it comes as a command or as the press of one of the pause, resume,
\* skip, stop, shuffle, clear-queue and loop buttons.
C34_BannedUserChangesNothing ==
    [][ \A u \in Users :
          (Database_is_user_banned(users, u) /\ requester' = u /\ last'.op # "join_vc")
              => UNCHANGED <<queues, current_tracks, paused_chats, loop_modes, volumes>>
      ]_vars

\* C31: a track accepted by /play is not discarded by a session teardown
\* running at the same time.  When the stream-end callback of a playing chat,
\* under loop mode off and with an empty queue, has started to
\* leave before /play streams its track, the transport has taken that track
\* and /play has answered "Now Playing" before the leave completes, the track
\* is still the chat's current track once both have finished.
C31_AcceptedTrackSurvivesTeardown ==
    \A c \in Chats :
        (/\ tasks["play"].at = "done" /\ tasks["play"].chat = c
         /\ tasks["stream_end"].at = "done" /\ tasks["stream_end"].chat = c
         /\ c \in start.calls /\ get_current_track(start, c) # None
         /\ last.op = "play" /\ last.reply.kind = "now_playing"
         /\ \E i, j \in 1 .. Len(issued) :
               /\ i < j
               /\ issued[i].m = "leave_group_call"
               /\ issued[j] = [m |-> "change_stream", arg |-> last.reply.n]
         /\ \E i, j, k \in 1 .. Len(transport_log) :
               /\ i < j /\ j < k
               /\ transport_log[i].m = "change_stream"
               /\ transport_log[i].arg = last.reply.n
               /\ transport_log[i].ok
               /\ transport_log[j].m = "change_volume_call"
               /\ transport_log[k].m = "leave_group_call")
        => Get(current_tracks, c, None) = last.reply.n
====
